---- MODULE Spec2Model ----
(***************************************************************************)
(* A model of the pyATS command gateway (servers/server.py and its         *)
(* sibling servers/pyats_mcp_server.py): command policy, device session    *)
(* lifecycle, parse-first/raw-fallback execution, output normalisation     *)
(* (make_json_safe) and the TOON serialiser (toon_with_stats).             *)
(*                                                                         *)
(* Text is a sequence of characters; a character is a string of length 1   *)
(* (or the name of a control character, such as "ESC").  Python values     *)
(* are tagged records (see "Python values" below).                         *)
(***************************************************************************)
EXTENDS Integers, Sequences, FiniteSets, TLC

VARIABLES
    variant,      \* which server file runs: "server" or "pyats_mcp_server"
    tokenizer,    \* module-level tokenizer handle: "o200k_base" or "None"
    pc,           \* pc[r]: where request r is
    op,           \* op[r]: the tool the request called
    policy,       \* policy[r]: the runner's decision: "none", "passed", "rejected"
    device_name,  \* device_name[r]: the request's device name (text)
    command,      \* command[r]: the request's command / config block (text)
    device,       \* device[r]: the worker's local `device` ("None" or "dev")
    connected,    \* connected[t]: the session of the device object of testbed t
                  \*   (the testbed request t loaded) is connected
    calls,        \* calls[r]: the collaborator calls the request made, in order
    result,       \* result[r]: what the command runner returns or raises
    response,     \* response[r]: what the tool endpoint gave the caller
    stats,        \* stats[r]: the token counts toon_with_stats took, and
                  \*   whether it wrote the [TOON SAVINGS] line to the log
    npc,          \* normaliser: "off", "input", "normalized", "renormalized"
    nin,          \* normaliser: the value make_json_safe is applied to
    nout,         \* normaliser: make_json_safe(nin)
    nout2         \* normaliser: make_json_safe(nout)

vars == <<variant, tokenizer, pc, op, policy, device_name, command, device, connected,
          calls, result, response, stats, npc, nin, nout, nout2>>

reqvars == <<variant, tokenizer, pc, op, policy, device_name, command, device,
             connected, calls, result, response, stats>>

normvars == <<npc, nin, nout, nout2>>

(***************************************************************************)
(* Bounds                                                                  *)
(***************************************************************************)
\* number of request slots
NumReq == 2
\* token counts the tokenizer may report are 0..MaxTokens
MaxTokens == 3
\* nesting depth of the values the normaliser is applied to
MaxDepth == 2

Req == 1..NumReq

(***************************************************************************)
(* Text                                                                    *)
(***************************************************************************)
\* the text of a string literal
Chars(s) == [i \in 1..Len(s) |-> SubSeq(s, i, i)]

\* F applied to the value of v: v is evaluated once, as an assignment to a
\* local name evaluates its right-hand side once
With(v, F(_)) == CHOOSE res \in {F(u) : u \in {v}} : TRUE

Range(f) == With(f, LAMBDA g : {g[i] : i \in DOMAIN g})

AsciiUpper == Chars("ABCDEFGHIJKLMNOPQRSTUVWXYZ")
AsciiLower == Chars("abcdefghijklmnopqrstuvwxyz")

\* code points 32..126, in order (a string cannot hold the backquote, code
\* point 96, which is therefore named)
AsciiPrintable ==
    Chars(" !\"#$%&'()*+,-./0123456789:;<=>?@ABCDEFGHIJKLMNOPQRSTUVWXYZ[\\]^_")
    \o <<"BACKTICK">> \o Chars("abcdefghijklmnopqrstuvwxyz{|}~")

\* characters outside 32..126 that the inputs use, with their code points
ControlCode ==
    [c \in {"\t", "\n", "\r", "BEL", "ESC", "NBSP", "e-acute"} |->
        CASE c = "BEL" -> 7
          [] c = "\t" -> 9
          [] c = "\n" -> 10
          [] c = "\r" -> 13
          [] c = "ESC" -> 27
          [] c = "NBSP" -> 160
          [] c = "e-acute" -> 233]

\* ord(c)
ord(c) ==
    With(<<ControlCode, AsciiPrintable>>, LAMBDA tab :
        IF c \in DOMAIN tab[1] THEN tab[1][c]
        ELSE 31 + (CHOOSE i \in DOMAIN tab[2] : tab[2][i] = c))

\* str.isspace for one character
isspace(c) == ord(c) \in {9, 10, 11, 12, 13, 28, 29, 30, 31, 32, 133, 160}

\* str.lower for one character (the inputs' alphabet has no other cased letter)
lower_char(c) ==
    With(<<AsciiUpper, AsciiLower>>, LAMBDA tab :
        IF \E i \in DOMAIN tab[1] : tab[1][i] = c
        THEN tab[2][CHOOSE i \in DOMAIN tab[1] : tab[1][i] = c]
        ELSE c)

\* str.lower
lower(t) == With(t, LAMBDA u : [i \in DOMAIN u |-> lower_char(u[i])])

RECURSIVE lstrip(_)
lstrip(t) ==
    With(t, LAMBDA u : IF u # <<>> /\ isspace(Head(u)) THEN lstrip(Tail(u)) ELSE u)

RECURSIVE rstrip(_)
rstrip(t) ==
    With(t, LAMBDA u :
        IF u # <<>> /\ isspace(u[Len(u)]) THEN rstrip(SubSeq(u, 1, Len(u) - 1)) ELSE u)

\* str.strip
strip(t) == rstrip(lstrip(t))

\* str.startswith
startswith(t, p) == With(t, LAMBDA u : Len(u) >= Len(p) /\ SubSeq(u, 1, Len(p)) = p)

\* `p in t` for two strings
contains(t, p) ==
    With(t, LAMBDA u : \E i \in 0..(Len(u) - Len(p)) : SubSeq(u, i + 1, i + Len(p)) = p)

\* the first whitespace-free run of t (t does not start with whitespace)
RECURSIVE first_word(_)
first_word(t) ==
    With(t, LAMBDA u :
        IF u = <<>> \/ isspace(Head(u)) THEN <<>>
        ELSE <<Head(u)>> \o first_word(Tail(u)))

\* str.split(): the maximal whitespace-free runs, in order
RECURSIVE split(_)
split(t) ==
    With(lstrip(t), LAMBDA u :
        With(first_word(u), LAMBDA w :
            IF u = <<>> THEN <<>>
            ELSE <<w>> \o split(SubSeq(u, Len(w) + 1, Len(u)))))

(***************************************************************************)
(* Python values                                                           *)
(*   NoneType, bool, int, str      JSON scalars                            *)
(*   opaque    an object without __dict__ that json.dumps rejects (bytes,  *)
(*             a frozenset, ...); s is its str()                           *)
(*   list, tuple                   e: the elements                         *)
(*   set       e: the elements in the set's iteration order                *)
(*   dict      kv: the items <<key, value>> in insertion order             *)
(*   object    d: the object's __dict__ (a dict)                           *)
(***************************************************************************)
PyNone == [t |-> "NoneType"]
PyBool(b) == [t |-> "bool", b |-> b]
PyInt(n) == [t |-> "int", n |-> n]
PyStr(s) == [t |-> "str", s |-> s]
PyOpaque(s) == [t |-> "opaque", s |-> s]
PyList(e) == [t |-> "list", e |-> e]
PyTuple(e) == [t |-> "tuple", e |-> e]
PySet(e) == [t |-> "set", e |-> e]
PyDict(kv) == [t |-> "dict", kv |-> kv]
PyObject(d) == [t |-> "object", d |-> d]

\* "sep".join(parts)
RECURSIVE join(_, _)
join(sep, parts) ==
    With(parts, LAMBDA ps :
        IF ps = <<>> THEN <<>>
        ELSE IF Len(ps) = 1 THEN ps[1]
        ELSE ps[1] \o sep \o join(sep, Tail(ps)))

\* the decimal digits of n >= 0
RECURSIVE digits(_)
digits(n) ==
    IF n < 10 THEN <<Chars("0123456789")[n + 1]>>
    ELSE digits(n \div 10) \o <<Chars("0123456789")[(n % 10) + 1]>>

\* repr(v); the texts of the inputs hold no quote and no backslash, so the
\* repr of a str is the text between single quotes
RECURSIVE repr(_)
repr(x) ==
  With(x, LAMBDA v :
    CASE v.t = "NoneType" -> Chars("None")
      [] v.t = "bool" -> IF v.b THEN Chars("True") ELSE Chars("False")
      [] v.t = "int" -> IF v.n < 0 THEN Chars("-") \o digits(-v.n) ELSE digits(v.n)
      [] v.t = "str" -> Chars("'") \o v.s \o Chars("'")
      [] v.t = "opaque" -> v.s
      [] v.t = "list" ->
            Chars("[") \o join(Chars(", "), [i \in DOMAIN v.e |-> repr(v.e[i])])
            \o Chars("]")
      [] v.t = "tuple" ->
            Chars("(") \o join(Chars(", "), [i \in DOMAIN v.e |-> repr(v.e[i])])
            \o (IF Len(v.e) = 1 THEN Chars(",") ELSE <<>>) \o Chars(")")
      [] v.t = "set" ->
            IF v.e = <<>> THEN Chars("set()")
            ELSE Chars("{") \o join(Chars(", "), [i \in DOMAIN v.e |-> repr(v.e[i])])
                 \o Chars("}")
      [] v.t = "dict" ->
            Chars("{")
            \o join(Chars(", "),
                    [i \in DOMAIN v.kv |->
                        repr(v.kv[i][1]) \o Chars(": ") \o repr(v.kv[i][2])])
            \o Chars("}")
      [] v.t = "object" -> Chars("<object>"))

\* str(v)
str(x) == With(x, LAMBDA v : IF v.t = "str" THEN v.s ELSE repr(v))

\* a < b for two str (code point order)
RECURSIVE text_lt(_, _)
text_lt(x, y) ==
    With(<<x, y>>, LAMBDA ab :
        LET a == ab[1]
            b == ab[2]
        IN IF b = <<>> THEN FALSE
           ELSE IF a = <<>> THEN TRUE
           ELSE IF ord(Head(a)) # ord(Head(b)) THEN ord(Head(a)) < ord(Head(b))
           ELSE text_lt(Tail(a), Tail(b)))

\* sorted(xs, key=lambda x: str(x)): a stable sort, equal keys keep their order
RECURSIVE sorted_by_str(_)
sorted_by_str(ys) ==
    With(ys, LAMBDA xs :
        IF xs = <<>> THEN <<>>
        ELSE With(sorted_by_str(SubSeq(xs, 1, Len(xs) - 1)), LAMBDA init :
                LET x == xs[Len(xs)]
                    \* x goes after every element whose key is <= its key
                    n == Cardinality({i \in DOMAIN init :
                                         ~text_lt(str(x), str(init[i]))})
                IN SubSeq(init, 1, n) \o <<x>> \o SubSeq(init, n + 1, Len(init))))

\* d[k] = v on the items of a dict: a present key keeps its place
dict_set(items, key, v) ==
    With(<<items, key>>, LAMBDA a :
        LET kv == a[1]
            k == a[2]
        IN IF \E i \in DOMAIN kv : kv[i][1] = k
           THEN [i \in DOMAIN kv |-> IF kv[i][1] = k THEN <<k, v>> ELSE kv[i]]
           ELSE Append(kv, <<k, v>>))

\* dict(items): the items inserted in order
RECURSIVE dict_of(_)
dict_of(pairs) ==
    With(pairs, LAMBDA items :
        IF items = <<>> THEN <<>>
        ELSE LET last == items[Len(items)]
             IN dict_set(dict_of(SubSeq(items, 1, Len(items) - 1)), last[1], last[2]))

\* json.dumps(obj) does not raise
RECURSIVE json_dumps_ok(_)
json_dumps_ok(x) ==
  With(x, LAMBDA v :
    CASE v.t \in {"NoneType", "bool", "int", "str"} -> TRUE
      [] v.t \in {"list", "tuple"} -> \A i \in DOMAIN v.e : json_dumps_ok(v.e[i])
      [] v.t = "dict" ->
            \A i \in DOMAIN v.kv :
                /\ v.kv[i][1].t \in {"NoneType", "bool", "int", "str"}
                /\ json_dumps_ok(v.kv[i][2])
      [] OTHER -> FALSE)

(***************************************************************************)
(* make_json_safe                                                          *)
(***************************************************************************)
\* coerce_key without str(): the key is kept as it is
coerce_key_kept(k) == k

\* the key `str(k)` of the dict comprehension
coerce_key(k) == PyStr(str(k))

RECURSIVE make_json_safe(_)
make_json_safe(x) ==
  With(x, LAMBDA obj :
    CASE obj.t = "dict" ->
            PyDict(dict_of([i \in DOMAIN obj.kv |->
                <<coerce_key(obj.kv[i][1]), make_json_safe(obj.kv[i][2])>>]))
      [] obj.t \in {"list", "tuple"} ->
            PyList([i \in DOMAIN obj.e |-> make_json_safe(obj.e[i])])
      [] obj.t = "set" ->
            PyList(sorted_by_str([i \in DOMAIN obj.e |-> make_json_safe(obj.e[i])]))
      [] obj.t = "object" -> make_json_safe(obj.d)
      [] OTHER -> IF json_dumps_ok(obj) THEN obj ELSE PyStr(str(obj)))

(***************************************************************************)
(* Helpers of the command runners                                          *)
(***************************************************************************)
\* the part of t after its first n characters
drop(t, n) == SubSeq(t, n + 1, Len(t))

\* the length of the match of r"\x1B(?:[@-Z\\-_]|\[[0-?]*[ -/]*[@-~])" at the
\* start of t, 0 when there is none
RECURSIVE span(_, _, _)
span(t, lo, hi) ==
    IF t # <<>> /\ ord(Head(t)) \in lo..hi THEN 1 + span(Tail(t), lo, hi) ELSE 0

ansi_escape_match(t) ==
    IF Len(t) < 2 \/ t[1] # "ESC" THEN 0
    ELSE IF ord(t[2]) \in (64..90) \cup (92..95) THEN 2
    ELSE IF t[2] # "[" THEN 0
    ELSE LET params == span(drop(t, 2), 48, 63)
             inter == span(drop(t, 2 + params), 32, 47)
             final == 2 + params + inter + 1
         IN IF Len(t) >= final /\ ord(t[final]) \in 64..126 THEN final ELSE 0

\* ansi_escape.sub("", output)
RECURSIVE ansi_escape_sub(_)
ansi_escape_sub(t) ==
    IF t = <<>> THEN <<>>
    ELSE IF ansi_escape_match(t) > 0 THEN ansi_escape_sub(drop(t, ansi_escape_match(t)))
    ELSE <<Head(t)>> \o ansi_escape_sub(Tail(t))

\* c in string.printable
printable(c) == ord(c) \in (32..126) \cup (9..13)

\* clean_output without the string.printable filter
clean_output_ansi_only(output) == ansi_escape_sub(output)

clean_output(output) == SelectSeq(ansi_escape_sub(output), printable)

\* text.split("\n")
RECURSIVE lines_of(_)
lines_of(t) ==
    IF \A i \in DOMAIN t : t[i] # "\n" THEN <<t>>
    ELSE LET n == CHOOSE i \in DOMAIN t :
                      t[i] = "\n" /\ \A j \in 1..(i - 1) : t[j] # "\n"
         IN <<SubSeq(t, 1, n - 1)>> \o lines_of(drop(t, n))

\* the leading run of spaces and tabs of a line
RECURSIVE indent_of(_)
indent_of(l) ==
    IF l # <<>> /\ Head(l) \in {" ", "\t"} THEN <<Head(l)>> \o indent_of(Tail(l))
    ELSE <<>>

RECURSIVE common_prefix(_, _)
common_prefix(a, b) ==
    IF a # <<>> /\ b # <<>> /\ Head(a) = Head(b)
    THEN <<Head(a)>> \o common_prefix(Tail(a), Tail(b))
    ELSE <<>>

\* the margin textwrap.dedent finds: the common indent of the lines that are
\* not blank (ls: those lines)
RECURSIVE margin_of(_)
margin_of(ls) ==
    IF ls = <<>> THEN <<>>
    ELSE IF Len(ls) = 1 THEN indent_of(ls[1])
    ELSE common_prefix(indent_of(ls[1]), margin_of(Tail(ls)))

\* textwrap.dedent: lines of blanks become empty, the common margin goes
dedent(t) ==
    LET ls == lines_of(t)
        blank(l) == \A i \in DOMAIN l : l[i] \in {" ", "\t"}
        nonblank(l) == ~blank(l)
        m == margin_of(SelectSeq(ls, nonblank))
    IN join(Chars("\n"),
            [i \in DOMAIN ls |-> IF blank(ls[i]) THEN <<>> ELSE drop(ls[i], Len(m))])

(***************************************************************************)
(* Result envelopes                                                        *)
(***************************************************************************)
Envelope(items) == PyDict(dict_of(items))

\* ErrorEnvelope that also carries an "output" key
ErrorEnvelope_with_output(msg) ==
    Envelope(<< <<PyStr(Chars("status")), PyStr(Chars("error"))>>,
                <<PyStr(Chars("output")), PyNone>>,
                <<PyStr(Chars("error")), PyStr(msg)>> >>)

ErrorEnvelope(msg) ==
    Envelope(<< <<PyStr(Chars("status")), PyStr(Chars("error"))>>,
                <<PyStr(Chars("error")), PyStr(msg)>> >>)

\* {"status": status, "device": device_name, "output": output}
DeviceEnvelope(status, name, output) ==
    Envelope(<< <<PyStr(Chars("status")), PyStr(status)>>,
                <<PyStr(Chars("device")), PyStr(name)>>,
                <<PyStr(Chars("output")), output>> >>)

\* {"status": status, "output": output}
PlainEnvelope(status, output) ==
    Envelope(<< <<PyStr(Chars("status")), PyStr(status)>>,
                <<PyStr(Chars("output")), output>> >>)

\* d[key] of a dict with str keys; HasKey: key in d
HasKey(d, key) == \E i \in DOMAIN d.kv : d.kv[i][1] = PyStr(Chars(key))
Get(d, key) == d.kv[CHOOSE i \in DOMAIN d.kv : d.kv[i][1] = PyStr(Chars(key))][2]

\* what a call gave: nothing yet, a returned value, or a raised exception
NoResult == [kind |-> "none"]
Return(v) == [kind |-> "return", value |-> v]
Raise(msg) == [kind |-> "raise", msg |-> msg]

(***************************************************************************)
(* Requests and the collaborators' answers                                 *)
(***************************************************************************)
Variants == {"server", "pyats_mcp_server"}

Tools == {"pyats_run_show_command", "pyats_configure_device",
          "pyats_show_running_config", "pyats_show_logging",
          "pyats_ping_from_network_device", "pyats_run_linux_command"}

\* the devices of the testbed file, and the names requests use
Testbed == {Chars("r1"), Chars("r2")}
DeviceNames == {Chars("r1"), Chars("r9")}

ShowCommands ==
    {Chars("show version"), Chars("  SHOW Version "), Chars("show running-config"),
     Chars("show running-config | include interface"), Chars("show config"),
     Chars("show ip route\t>\tx"), Chars("showtime"), Chars("configure terminal")}

PingCommands ==
    {Chars("ping 10.0.0.1"), Chars("PING 10.0.0.1"), Chars(" ping 10.0.0.1"),
     Chars("show version")}

ConfigBlocks ==
    {Chars("hostname r1"), Chars("no erase startup-config"), Chars("write ERASE"),
     Chars(" int l0\n \n  shut ")}

LinuxCommands == {Chars("ls -l"), Chars("uname")}

\* the command texts a tool takes (the two learn tools take none)
CommandsOf(tool) ==
    CASE tool = "pyats_run_show_command" -> ShowCommands
      [] tool = "pyats_configure_device" -> ConfigBlocks
      [] tool = "pyats_ping_from_network_device" -> PingCommands
      [] tool = "pyats_run_linux_command" -> LinuxCommands
      [] OTHER -> {<<>>}

\* what device.parse may return: a JSON-safe dict, and one with an int key
\* and a set
ParsedOutputs ==
    {PyDict(<< <<PyStr(Chars("version")), PyStr(Chars("17.3"))>> >>),
     PyDict(<< <<PyInt(1), PySet(<<PyInt(10), PyInt(2)>>)>> >>)}

\* what device.execute may return: plain text, and text with ANSI escapes,
\* a control character and a non-ASCII letter
RawOutputs ==
    {Chars("up"),
     <<"ESC">> \o Chars("[1mr1") \o <<"ESC">> \o Chars("[0m") \o <<"BEL", "e-acute">>}

\* what the parse and the execute of this device return: r2 answers every
\* command with one structured value and one text
ParsedOutputsOf(name) ==
    IF name = Chars("r2")
    THEN {PyDict(<< <<PyStr(Chars("version")), PyStr(Chars("17.3"))>> >>)}
    ELSE ParsedOutputs

RawOutputsOf(name) == IF name = Chars("r2") THEN {Chars("up")} ELSE RawOutputs

\* what device.configure may return
ConfigureOutputs == {Chars("ok")}

\* str(e) of the exception a failing collaborator call raises
\* the collaborator calls that may raise while a request for this device is
\* served: any call for r1 and r9; for r2, a reachable device that answers
\* every call, only parse (no parser for the command, or output the parser
\* does not understand)
Faults(name) ==
    IF name = Chars("r2") THEN {"parse"}
    ELSE {"loader.load", "is_connected", "connect", "get_parser", "parse", "execute",
          "configure", "disconnect"}

Failed(call) == Chars(call) \o Chars(" failed")

\* one collaborator call, as the request's history records it: its name, its
\* argument (for is_connected, the answer it gave) and whether it returned
Called(call, arg, ok) == [call |-> call, arg |-> arg, ok |-> ok]

\* the worker's `finally` called _disconnect_device(device)
Released(dev) == Called("_disconnect_device", dev, TRUE)

NoStats == [json_tokens |-> -1, toon_tokens |-> -1, reduction |-> 0, logged |-> FALSE]
NoResponse == [kind |-> "none"]

(***************************************************************************)
(* Init                                                                    *)
(***************************************************************************)
IdleRequests ==
    /\ pc = [r \in Req |-> "idle"]
    /\ op = [r \in Req |-> "none"]
    /\ policy = [r \in Req |-> "none"]
    /\ device_name = [r \in Req |-> <<>>]
    /\ command = [r \in Req |-> <<>>]
    /\ device = [r \in Req |-> "None"]
    /\ connected = [r \in Req |-> FALSE]
    /\ calls = [r \in Req |-> <<>>]
    /\ result = [r \in Req |-> NoResult]
    /\ response = [r \in Req |-> NoResponse]
    /\ stats = [r \in Req |-> NoStats]

Init ==
    /\ variant \in Variants
    /\ tokenizer \in {"o200k_base", "None"}
    /\ IdleRequests
    /\ npc = "off"
    /\ nin = PyNone
    /\ nout = PyNone
    /\ nout2 = PyNone

(***************************************************************************)
(* Command policy                                                          *)
(***************************************************************************)
disallowed ==
    <<Chars("|"), Chars("include"), Chars("exclude"), Chars("begin"),
      Chars("redirect"), Chars(">"), Chars("<"), Chars("config"), Chars("copy"),
      Chars("delete"), Chars("erase"), Chars("reload"), Chars("write")>>

\* not c.startswith("show"), c = command.lower().strip()
not_show(cmd) == ~startswith(strip(lower(cmd)), Chars("show"))

\* illegal_modifier with `x in c` for `x in c.split()`: a substring test
illegal_modifier_substring(cmd) ==
    \E i \in DOMAIN disallowed : contains(strip(lower(cmd)), disallowed[i])

\* any(x in c.split() for x in disallowed)
illegal_modifier(cmd) ==
    With(split(strip(lower(cmd))), LAMBDA tokens :
        \E i \in DOMAIN disallowed : \E j \in DOMAIN tokens : disallowed[i] = tokens[j])

\* erase_detected without .lower(): a case-sensitive test
erase_detected_case_sensitive(config_commands) ==
    contains(config_commands, Chars("erase"))

\* "erase" in config_commands.lower()
erase_detected(config_commands) == contains(lower(config_commands), Chars("erase"))

\* the ping test of each file: server.py does not strip the command
not_ping(v, cmd) ==
    IF v = "server" THEN ~startswith(lower(cmd), Chars("ping"))
    ELSE ~startswith(strip(lower(cmd)), Chars("ping"))

\* whether the runner of `tool` in file v returns its error envelope instead
\* of dispatching the worker
rejects(v, tool, cmd) ==
    CASE tool = "pyats_run_show_command" -> not_show(cmd) \/ illegal_modifier(cmd)
      [] tool = "pyats_configure_device" -> erase_detected(cmd)
      [] tool = "pyats_ping_from_network_device" -> not_ping(v, cmd)
      [] OTHER -> FALSE

\* the message of the "modifier" rejection of each file
modifier_message(v, cmd) ==
    IF v = "server" THEN Chars("Illegal modifier in command: ") \o cmd
    ELSE Chars("Disallowed modifier in '") \o cmd \o Chars("'")

\* the message of the "erase" rejection of each file
erase_message(v) ==
    IF v = "server" THEN Chars("Unsafe 'erase' detected")
    ELSE Chars("Dangerous 'erase' detected")

\* the message of _get_device's ValueError of each file
not_in_testbed_message(v, name) ==
    IF v = "server" THEN Chars("Device '") \o name \o Chars("' not in testbed")
    ELSE Chars("Device '") \o name \o Chars("' not found in testbed.yaml")

(***************************************************************************)
(* The envelopes the workers return                                        *)
(***************************************************************************)
\* the envelope of a tool whose server.py version carries no "device" key
ToolEnvelope(v, status, name, output) ==
    IF v = "server" THEN PlainEnvelope(status, output)
    ELSE DeviceEnvelope(status, name, output)

\* after device.parse(command) returned `parsed`
parse_envelope(v, tool, name, parsed) ==
    IF tool = "pyats_run_show_command"
    THEN DeviceEnvelope(Chars("completed"), name, parsed)
    ELSE ToolEnvelope(v, Chars("completed"), name, parsed)

RawOutput(text) == PyDict(<< <<PyStr(Chars("raw_output")), PyStr(text)>> >>)

\* after device.execute(...) returned `raw`
execute_envelope(v, tool, name, raw) ==
    CASE tool = "pyats_run_show_command" ->
            DeviceEnvelope(Chars("completed_raw"), name, PyStr(raw))
      [] tool = "pyats_ping_from_network_device" ->
            ToolEnvelope(v, Chars("completed_raw"), name, PyStr(raw))
      [] tool = "pyats_show_running_config" ->
            ToolEnvelope(v, Chars("completed_raw"), name, RawOutput(clean_output(raw)))
      [] tool = "pyats_show_logging" ->
            ToolEnvelope(v, Chars("completed_raw"), name, RawOutput(raw))
      [] tool = "pyats_run_linux_command" ->
            ToolEnvelope(v, Chars("completed"), name, PyStr(raw))

\* after device.configure(cleaned) returned `out`
configure_envelope(v, name, out) == ToolEnvelope(v, Chars("success"), name, PyStr(out))

\* the text each worker hands to device.execute
execute_argument(tool, cmd) ==
    CASE tool = "pyats_show_running_config" -> Chars("show run brief")
      [] tool = "pyats_show_logging" -> Chars("show logging last 250")
      [] OTHER -> cmd

\* the text _execute_config hands to device.configure
configure_argument(config_commands) == dedent(strip(config_commands))

\* where a worker goes once it holds a connected device
after_acquire(tool) ==
    CASE tool \in {"pyats_run_show_command", "pyats_ping_from_network_device"} -> "parse"
      [] tool = "pyats_configure_device" -> "configure"
      [] tool \in {"pyats_show_running_config", "pyats_show_logging"} -> "execute"
      [] tool = "pyats_run_linux_command" -> "get_parser"

(***************************************************************************)
(* The tool endpoints and the command runners                              *)
(***************************************************************************)
Goto(r, where) == pc' = [pc EXCEPT ![r] = where]

Record(r, call, arg, ok) ==
    calls' = [calls EXCEPT ![r] = Append(@, Called(call, arg, ok))]

SetResult(r, x) == result' = [result EXCEPT ![r] = x]

\* Reject without its `return`: the error envelope is built and the worker is
\* dispatched all the same
Reject_and_dispatch(r, msg) ==
    /\ policy' = [policy EXCEPT ![r] = "rejected"]
    /\ SetResult(r, Return(ErrorEnvelope(msg)))
    /\ Goto(r, "load")

\* a runner returns an error envelope without dispatching a worker
Reject(r, msg) ==
    /\ policy' = [policy EXCEPT ![r] = "rejected"]
    /\ SetResult(r, Return(ErrorEnvelope(msg)))
    /\ Goto(r, "returned")

\* Dispatch to an executor of one thread: the worker starts only when no
\* other worker is running
Dispatch_to_one_thread(r) ==
    /\ \A q \in Req \ {r} : pc[q] \notin {"load", "get", "is_connected", "connect",
                                          "get_parser", "parse", "execute",
                                          "configure", "finally", "disconnect"}
    /\ policy' = [policy EXCEPT ![r] = "passed"]
    /\ Goto(r, "load")
    /\ UNCHANGED result

\* loop.run_in_executor(None, partial(worker, ...))
Dispatch(r) ==
    /\ policy' = [policy EXCEPT ![r] = "passed"]
    /\ Goto(r, "load")
    /\ UNCHANGED result

\* `except Exception as e: return {"status": "error", "error": str(e)}`, then
\* the worker's `finally`
Except(r, msg) == SetResult(r, Return(ErrorEnvelope(msg))) /\ Goto(r, "finally")

\* no other request is in flight
Alone(r) == \A q \in Req \ {r} : pc[q] = "idle"

\* a caller invokes tool `tool` with a device name and a command text, while
\* no other request is in flight
Call(r) ==
    /\ pc[r] = "idle"
    /\ Alone(r)
    /\ \E tool \in Tools, name \in DeviceNames :
        \E cmd \in CommandsOf(tool) :
            /\ op' = [op EXCEPT ![r] = tool]
            /\ device_name' = [device_name EXCEPT ![r] = name]
            /\ command' = [command EXCEPT ![r] = cmd]
    /\ Goto(r, "called")
    /\ UNCHANGED <<variant, tokenizer, policy, device, connected, calls, result,
                   response, stats, normvars>>

run_show_command_async(r) ==
    /\ pc[r] = "called" /\ op[r] = "pyats_run_show_command"
    /\ IF not_show(command[r])
       THEN Reject(r, Chars("Only 'show' commands allowed"))
       ELSE IF illegal_modifier(command[r])
       THEN Reject(r, modifier_message(variant, command[r]))
       ELSE Dispatch(r)
    /\ UNCHANGED <<variant, tokenizer, op, device_name, command, device, connected,
                   calls, response, stats, normvars>>

apply_device_configuration_async(r) ==
    /\ pc[r] = "called" /\ op[r] = "pyats_configure_device"
    /\ IF erase_detected(command[r])
       THEN Reject(r, erase_message(variant))
       ELSE Dispatch(r)
    /\ UNCHANGED <<variant, tokenizer, op, device_name, command, device, connected,
                   calls, response, stats, normvars>>

execute_learn_config_async(r) ==
    /\ pc[r] = "called" /\ op[r] = "pyats_show_running_config"
    /\ Dispatch(r)
    /\ UNCHANGED <<variant, tokenizer, op, device_name, command, device, connected,
                   calls, response, stats, normvars>>

execute_learn_logging_async(r) ==
    /\ pc[r] = "called" /\ op[r] = "pyats_show_logging"
    /\ Dispatch(r)
    /\ UNCHANGED <<variant, tokenizer, op, device_name, command, device, connected,
                   calls, response, stats, normvars>>

run_ping_command_async(r) ==
    /\ pc[r] = "called" /\ op[r] = "pyats_ping_from_network_device"
    /\ IF not_ping(variant, command[r])
       THEN Reject(r, Chars("Only 'ping' commands allowed"))
       ELSE Dispatch(r)
    /\ UNCHANGED <<variant, tokenizer, op, device_name, command, device, connected,
                   calls, response, stats, normvars>>

run_linux_command_async(r) ==
    /\ pc[r] = "called" /\ op[r] = "pyats_run_linux_command"
    /\ Dispatch(r)
    /\ UNCHANGED <<variant, tokenizer, op, device_name, command, device, connected,
                   calls, response, stats, normvars>>

(***************************************************************************)
(* The workers, one step per collaborator call                             *)
(***************************************************************************)
\* one module-level testbed, loaded once and handed to every request
testbed_cached(r) == 1

\* testbed = loader.load(TESTBED_PATH): every call builds a new testbed with
\* device objects of its own, so the testbed a worker holds, and the device
\* object (and session) it gets from it, are those of its own request
testbed(r) == r

\* this call may raise while request r is served
MayFail(r, call) == call \in Faults(device_name[r])

IsLinux(r) == op[r] = "pyats_run_linux_command"

\* testbed = loader.load(TESTBED_PATH)
loader_load(r) ==
    /\ pc[r] = "load"
    /\ \/ /\ Record(r, "loader.load", <<>>, TRUE)
          /\ Goto(r, "get")
          /\ UNCHANGED result
       \/ /\ MayFail(r, "loader.load")
          /\ Record(r, "loader.load", <<>>, FALSE)
          /\ Except(r, Failed("loader.load"))
    /\ UNCHANGED <<variant, tokenizer, op, policy, device_name, command, device, connected,
                   response, stats, normvars>>

\* testbed.devices.get(device_name) / device_name in testbed.devices; the
\* handle the directory gives may already report connected
devices_get(r) ==
    /\ pc[r] = "get"
    /\ Record(r, "devices.get", device_name[r], device_name[r] \in Testbed)
    /\ IF device_name[r] \in Testbed
       THEN /\ \E c \in BOOLEAN : connected' = [connected EXCEPT ![testbed(r)] = c]
            /\ device' = [device EXCEPT ![r] = IF IsLinux(r) THEN "dev" ELSE @]
            /\ Goto(r, "is_connected")
            /\ UNCHANGED result
       ELSE /\ Except(r, IF IsLinux(r) THEN Chars("Linux device not found")
                         ELSE not_in_testbed_message(variant, device_name[r]))
            /\ UNCHANGED <<connected, device>>
    /\ UNCHANGED <<variant, tokenizer, op, policy, device_name, command, response, stats,
                   normvars>>

\* `if not device.is_connected():` of _get_device / _execute_linux_command
is_connected(r) ==
    /\ pc[r] = "is_connected"
    /\ \/ /\ Record(r, "is_connected", connected[testbed(r)], TRUE)
          /\ IF connected[testbed(r)]
             THEN /\ Goto(r, after_acquire(op[r]))
                  /\ device' = [device EXCEPT ![r] = "dev"]
             ELSE /\ Goto(r, "connect")
                  /\ UNCHANGED device
          /\ UNCHANGED result
       \/ /\ MayFail(r, "is_connected")
          /\ Record(r, "is_connected", <<>>, FALSE)
          /\ Except(r, Failed("is_connected"))
          /\ UNCHANGED device
    /\ UNCHANGED <<variant, tokenizer, op, policy, device_name, command, connected,
                   response, stats, normvars>>

\* connect whose failure is not raised: the worker goes on with the device
connect_failure_ignored(r) ==
    /\ pc[r] = "connect"
    /\ \/ /\ Record(r, "connect", <<>>, TRUE)
          /\ connected' = [connected EXCEPT ![testbed(r)] = TRUE]
       \/ /\ MayFail(r, "connect")
          /\ Record(r, "connect", <<>>, FALSE)
          /\ \E c \in BOOLEAN : connected' = [connected EXCEPT ![testbed(r)] = c]
    /\ device' = [device EXCEPT ![r] = "dev"]
    /\ Goto(r, after_acquire(op[r]))
    /\ UNCHANGED <<variant, tokenizer, op, policy, device_name, command, result, response,
                   stats, normvars>>

\* device.connect(...): it returns, or raises with the session closed, or
\* raises with the session already open (a half-connected device)
connect(r) ==
    /\ pc[r] = "connect"
    /\ \/ /\ Record(r, "connect", <<>>, TRUE)
          /\ connected' = [connected EXCEPT ![testbed(r)] = TRUE]
          /\ device' = [device EXCEPT ![r] = "dev"]
          /\ Goto(r, after_acquire(op[r]))
          /\ UNCHANGED result
       \/ /\ MayFail(r, "connect")
          /\ Record(r, "connect", <<>>, FALSE)
          /\ \E c \in BOOLEAN : connected' = [connected EXCEPT ![testbed(r)] = c]
          /\ Except(r, Failed("connect"))
          /\ UNCHANGED device
    /\ UNCHANGED <<variant, tokenizer, op, policy, device_name, command, response, stats,
                   normvars>>

\* parser = get_parser(command, device) of _execute_linux_command: a parser,
\* nothing (then ValueError, caught), or an exception (caught)
get_parser(r) ==
    /\ pc[r] = "get_parser"
    /\ \/ /\ Record(r, "get_parser", command[r], TRUE)
          /\ \E found \in BOOLEAN : Goto(r, IF found THEN "parse" ELSE "execute")
       \/ /\ MayFail(r, "get_parser")
          /\ Record(r, "get_parser", command[r], FALSE)
          /\ Goto(r, "execute")
    /\ UNCHANGED <<variant, tokenizer, op, policy, device_name, command, device, connected,
                   result, response, stats, normvars>>

\* parse without the inner `try`: a failed parse ends the worker with an error
\* envelope instead of falling back to device.execute
parse_without_fallback(r) ==
    /\ pc[r] = "parse"
    /\ \/ /\ Record(r, "parse", command[r], TRUE)
          /\ \E parsed \in ParsedOutputsOf(device_name[r]) :
                SetResult(r, Return(parse_envelope(variant, op[r], device_name[r],
                                                   parsed)))
          /\ Goto(r, "finally")
       \/ /\ MayFail(r, "parse")
          /\ Record(r, "parse", command[r], FALSE)
          /\ Except(r, Failed("parse"))
    /\ UNCHANGED <<variant, tokenizer, op, policy, device_name, command, device, connected,
                   response, stats, normvars>>

\* device.parse(command)
parse(r) ==
    /\ pc[r] = "parse"
    /\ \/ /\ Record(r, "parse", command[r], TRUE)
          /\ \E parsed \in ParsedOutputsOf(device_name[r]) :
                SetResult(r, Return(parse_envelope(variant, op[r], device_name[r],
                                                   parsed)))
          /\ Goto(r, "finally")
       \/ /\ MayFail(r, "parse")
          /\ Record(r, "parse", command[r], FALSE)
          /\ Goto(r, "execute")
          /\ UNCHANGED result
    /\ UNCHANGED <<variant, tokenizer, op, policy, device_name, command, device, connected,
                   response, stats, normvars>>

\* device.execute(...)
execute(r) ==
    /\ pc[r] = "execute"
    /\ \/ /\ Record(r, "execute", execute_argument(op[r], command[r]), TRUE)
          /\ \E raw \in RawOutputsOf(device_name[r]) :
                SetResult(r, Return(execute_envelope(variant, op[r], device_name[r],
                                                     raw)))
          /\ Goto(r, "finally")
       \/ /\ MayFail(r, "execute")
          /\ Record(r, "execute", execute_argument(op[r], command[r]), FALSE)
          /\ Except(r, Failed("execute"))
    /\ UNCHANGED <<variant, tokenizer, op, policy, device_name, command, device, connected,
                   response, stats, normvars>>

\* device.configure(cleaned)
configure(r) ==
    /\ pc[r] = "configure"
    /\ \/ /\ Record(r, "configure", configure_argument(command[r]), TRUE)
          /\ \E out \in ConfigureOutputs :
                SetResult(r, Return(configure_envelope(variant, device_name[r], out)))
          /\ Goto(r, "finally")
       \/ /\ MayFail(r, "configure")
          /\ Record(r, "configure", configure_argument(command[r]), FALSE)
          /\ Except(r, Failed("configure"))
    /\ UNCHANGED <<variant, tokenizer, op, policy, device_name, command, device, connected,
                   response, stats, normvars>>

\* disconnect_device without the is_connected test: `if device:`
disconnect_device_unconditional(r) ==
    /\ pc[r] = "finally"
    /\ \/ /\ device[r] = "None"
          /\ calls' = [calls EXCEPT ![r] = Append(@, Released(device[r]))]
          /\ Goto(r, "returned")
       \/ /\ device[r] # "None"
          /\ calls' = [calls EXCEPT ![r] = Append(@, Released(device[r]))]
          /\ Goto(r, "disconnect")
    /\ UNCHANGED <<variant, tokenizer, op, policy, device_name, command, device, connected,
                   result, response, stats, normvars>>

\* `finally: _disconnect_device(device)`, up to `device and
\* device.is_connected()`: is_connected is outside the try of
\* _disconnect_device, so what it raises replaces the worker's return value
disconnect_device(r) ==
    /\ pc[r] = "finally"
    /\ \/ /\ device[r] = "None"
          /\ calls' = [calls EXCEPT ![r] = Append(@, Released(device[r]))]
          /\ Goto(r, "returned")
          /\ UNCHANGED result
       \/ /\ device[r] # "None"
          /\ calls' = [calls EXCEPT ![r] =
                Append(Append(@, Released(device[r])),
                       Called("is_connected", connected[testbed(r)], TRUE))]
          /\ Goto(r, IF connected[testbed(r)] THEN "disconnect" ELSE "returned")
          /\ UNCHANGED result
       \/ /\ device[r] # "None"
          /\ MayFail(r, "is_connected")
          /\ calls' = [calls EXCEPT ![r] =
                Append(Append(@, Released(device[r])),
                       Called("is_connected", <<>>, FALSE))]
          /\ SetResult(r, Raise(Failed("is_connected")))
          /\ Goto(r, "returned")
    /\ UNCHANGED <<variant, tokenizer, op, policy, device_name, command, device, connected,
                   response, stats, normvars>>

\* device.disconnect() inside the try of _disconnect_device: what it raises is
\* logged and dropped, and the session may or may not have been closed
disconnect(r) ==
    /\ pc[r] = "disconnect"
    /\ \/ /\ Record(r, "disconnect", <<>>, TRUE)
          /\ connected' = [connected EXCEPT ![testbed(r)] = FALSE]
       \/ /\ MayFail(r, "disconnect")
          /\ Record(r, "disconnect", <<>>, FALSE)
          /\ \E c \in BOOLEAN : connected' = [connected EXCEPT ![testbed(r)] = c]
    /\ Goto(r, "returned")
    /\ UNCHANGED <<variant, tokenizer, op, policy, device_name, command, device, result,
                   response, stats, normvars>>

(***************************************************************************)
(* toon_with_stats and the tool's response                                 *)
(*                                                                         *)
(* A response text is a sequence of segments: literal text, the JSON       *)
(* rendering json.dumps(v, indent=2) of a value, or its TOON rendering     *)
(* toon_encode(v, ...).                                                    *)
(***************************************************************************)
Text(s) == [seg |-> "text", s |-> s]
JsonOf(v) == [seg |-> "json", of |-> v]
ToonOf(v) == [seg |-> "toon", of |-> v]

fence == <<"BACKTICK", "BACKTICK", "BACKTICK">>

Responded(body) == [kind |-> "text", body |-> body]
Raised(msg) == [kind |-> "raise", msg |-> msg]

\* what tokenizer.encode may do: return n tokens, or raise
Encodings == [ok : BOOLEAN, n : 0..MaxTokens]

\* tokenizer.encode is called only when there is a tokenizer
EncodingsOf(tok) == IF tok = "None" THEN {[ok |-> FALSE, n |-> 0]} ELSE Encodings

count_tokens(tok, encoding) ==
    IF tok = "None" THEN -1
    ELSE IF encoding.ok THEN encoding.n
    ELSE -1

\* reduction with the two counts swapped
reduction_swapped(json_tokens, toon_tokens) ==
    (2000 * (toon_tokens - json_tokens) + json_tokens) \div (2 * json_tokens)

\* token_savings with `if json_tokens > 0:` only
token_savings_partial(json_tokens, toon_tokens) ==
    IF json_tokens > 0
    THEN [json_tokens |-> json_tokens, toon_tokens |-> toon_tokens,
          reduction |-> (2000 * (json_tokens - toon_tokens) + json_tokens)
                            \div (2 * json_tokens),
          logged |-> TRUE]
    ELSE [json_tokens |-> json_tokens, toon_tokens |-> toon_tokens,
          reduction |-> 0, logged |-> FALSE]

\* 100 * (1 - (toon_tokens / json_tokens)) as the log shows it ({:.1f}), in
\* tenths of a percent
reduction(json_tokens, toon_tokens) ==
    (2000 * (json_tokens - toon_tokens) + json_tokens) \div (2 * json_tokens)

\* the counts toon_with_stats takes; the [TOON SAVINGS] line is stats, with
\* the reduction, only `if json_tokens > 0 and toon_tokens > 0`
token_savings(json_tokens, toon_tokens) ==
    IF json_tokens > 0 /\ toon_tokens > 0
    THEN [json_tokens |-> json_tokens, toon_tokens |-> toon_tokens,
          reduction |-> reduction(json_tokens, toon_tokens), logged |-> TRUE]
    ELSE [json_tokens |-> json_tokens, toon_tokens |-> toon_tokens,
          reduction |-> 0, logged |-> FALSE]

\* what toon_with_stats encodes: server.py normalises first, the other file
\* encodes the envelope as it is
encoded_value(v, data) == IF v = "server" THEN make_json_safe(data) ELSE data

\* the text returned when toon_encode raised e
failure_text(v, safe, e) ==
    IF v = "server"
    THEN <<Text(fence \o Chars("error\nTOON conversion failed:\n")), Text(e),
           Text(Chars("\nOriginal JSON:\n")), JsonOf(safe), Text(Chars("\n") \o fence)>>
    ELSE <<Text(Chars("@@TOON@@\n") \o fence \o Chars("json\n")), JsonOf(safe),
           Text(Chars("\n") \o fence)>>

\* the text returned when toon_encode succeeded
success_text(v, safe) ==
    IF v = "server"
    THEN <<Text(fence \o Chars("toon\n")), ToonOf(safe), Text(Chars("\n") \o fence)>>
    ELSE <<Text(Chars("@@TOON@@\n") \o fence \o Chars("toon\n")), ToonOf(safe),
           Text(Chars("\n") \o fence)>>

\* the tool endpoint once its runner returned: toon_with_stats(result)
toon_with_stats(r) ==
    /\ pc[r] = "returned" /\ result[r].kind = "return"
    /\ LET safe == encoded_value(variant, result[r].value)
       IN \/ \* json.dumps(data, indent=2) raises (pyats_mcp_server.py only:
             \* server.py's data is normalised)
             /\ ~json_dumps_ok(safe)
             /\ response' = [response EXCEPT ![r] = Raised(Failed("json.dumps"))]
             /\ UNCHANGED stats
          \/ \* toon_encode raises
             /\ json_dumps_ok(safe)
             /\ response' = [response EXCEPT ![r] =
                    Responded(failure_text(variant, safe, Failed("toon_encode")))]
             /\ UNCHANGED stats
          \/ \* toon_encode returns
             /\ json_dumps_ok(safe)
             /\ \E je \in EncodingsOf(tokenizer), te \in EncodingsOf(tokenizer) :
                    stats' = [stats EXCEPT ![r] =
                        token_savings(count_tokens(tokenizer, je),
                                      count_tokens(tokenizer, te))]
             /\ response' = [response EXCEPT ![r] =
                    Responded(success_text(variant, safe))]
    /\ Goto(r, "done")
    /\ UNCHANGED <<variant, tokenizer, op, policy, device_name, command, device, connected,
                   calls, result, normvars>>

\* the tool endpoint when its runner raised: `await` re-raises in the endpoint
tool_raises(r) ==
    /\ pc[r] = "returned" /\ result[r].kind = "raise"
    /\ response' = [response EXCEPT ![r] = Raised(result[r].msg)]
    /\ Goto(r, "done")
    /\ UNCHANGED <<variant, tokenizer, op, policy, device_name, command, device, connected,
                   calls, result, stats, normvars>>

(***************************************************************************)
(* Specification: requests served one at a time                            *)
(***************************************************************************)
Step(r) ==
    \/ Call(r)
    \/ run_show_command_async(r)
    \/ apply_device_configuration_async(r)
    \/ execute_learn_config_async(r)
    \/ execute_learn_logging_async(r)
    \/ run_ping_command_async(r)
    \/ run_linux_command_async(r)
    \/ loader_load(r)
    \/ devices_get(r)
    \/ is_connected(r)
    \/ connect(r)
    \/ get_parser(r)
    \/ parse(r)
    \/ execute(r)
    \/ configure(r)
    \/ disconnect_device(r)
    \/ disconnect(r)
    \/ toon_with_stats(r)
    \/ tool_raises(r)

Next == \E r \in Req : Step(r)

Spec == Init /\ [][Next]_vars

(***************************************************************************)
(* Specification: requests submitted concurrently.  The event loop runs    *)
(* the runners and the endpoints' toon_with_stats one at a time, each in   *)
(* one piece (they hold no await but run_in_executor); the workers run on  *)
(* executor threads and interleave at every collaborator call.             *)
(***************************************************************************)
\* the requests submitted concurrently: tool, device name, command
ConcurrentRequests ==
    {<<"pyats_run_show_command", Chars("r2"), Chars("show version")>>,
     <<"pyats_run_show_command", Chars("r2"), Chars("configure terminal")>>}

\* a caller invokes a tool, whatever the other requests are doing
Submit(r) ==
    /\ pc[r] = "idle"
    /\ \E req \in ConcurrentRequests :
            /\ op' = [op EXCEPT ![r] = req[1]]
            /\ device_name' = [device_name EXCEPT ![r] = req[2]]
            /\ command' = [command EXCEPT ![r] = req[3]]
    /\ Goto(r, "called")
    /\ UNCHANGED <<variant, tokenizer, policy, device, connected, calls, result,
                   response, stats, normvars>>

\* the steps of a submitted request: its runner, its worker, its endpoint
\* (on these requests no worker raises)
Work(r) ==
    \/ run_show_command_async(r)
    \/ loader_load(r)
    \/ devices_get(r)
    \/ is_connected(r)
    \/ connect(r)
    \/ parse(r)
    \/ execute(r)
    \/ disconnect_device(r)
    \/ disconnect(r)
    \/ toon_with_stats(r)

StepConc(r) == Submit(r) \/ Work(r)

InitConc ==
    /\ variant = "server"
    /\ tokenizer = "None"
    /\ IdleRequests
    /\ npc = "off"
    /\ nin = PyNone
    /\ nout = PyNone
    /\ nout2 = PyNone

NextConc == \E r \in Req : StepConc(r)

SpecConc == InitConc /\ [][NextConc]_vars

\* every executor thread keeps running and every collaborator call returns
\* or raises; the event loop runs every coroutine that is ready
FairSpecConc == SpecConc /\ \A r \in Req : WF_vars(Work(r))

(***************************************************************************)
(* Specification: concurrent requests whose callers may cancel them while  *)
(* the endpoint is suspended in `await loop.run_in_executor(...)`.         *)
(***************************************************************************)
CancellableRequests == {<<"pyats_run_show_command", Chars("r2"), Chars("show version")>>}

SubmitCancellable(r) ==
    /\ pc[r] = "idle"
    /\ \E req \in CancellableRequests :
            /\ op' = [op EXCEPT ![r] = req[1]]
            /\ device_name' = [device_name EXCEPT ![r] = req[2]]
            /\ command' = [command EXCEPT ![r] = req[3]]
    /\ Goto(r, "called")
    /\ UNCHANGED <<variant, tokenizer, policy, device, connected, calls, result,
                   response, stats, normvars>>

\* the positions of a request whose endpoint is suspended in its await: the
\* work item is with the executor, or done and the endpoint not yet resumed
Awaiting == {"load", "get", "is_connected", "connect", "parse", "execute", "finally",
             "disconnect", "returned"}

\* the end of a request whose endpoint got CancelledError: no answer; started
\* tells whether the work item had begun to run, session whether the
\* request's device reported connected at that moment
Cancelled(started, session) ==
    [kind |-> "cancelled", started |-> started, session |-> session]

\* Cancel that also stops the worker where it is
Cancel_aborts_worker(r) ==
    /\ pc[r] \in Awaiting
    /\ response[r].kind = "none"
    /\ response' = [response EXCEPT ![r] =
            Cancelled(pc[r] # "load", connected[testbed(r)])]
    /\ Goto(r, "done")
    /\ UNCHANGED <<variant, tokenizer, op, policy, device_name, command, device, connected,
                   calls, result, stats, normvars>>

\* the caller cancels the request: CancelledError is raised at the endpoint's
\* await and the cancellation is passed on to the executor's future, whose
\* cancel() succeeds only while the work item is pending.  The item is
\* pending until a thread takes it, which the model merges with the worker's
\* first call (pc "load"): there the item is dropped, or a thread has it
\* already.  A worker that runs is not touched.
Cancel(r) ==
    /\ pc[r] \in Awaiting
    /\ response[r].kind = "none"
    /\ \/ /\ pc[r] = "load"
          /\ response' = [response EXCEPT ![r] = Cancelled(FALSE, FALSE)]
          /\ Goto(r, "done")
       \/ /\ response' = [response EXCEPT ![r] =
                 Cancelled(TRUE, connected[testbed(r)])]
          /\ UNCHANGED pc
    /\ UNCHANGED <<variant, tokenizer, op, policy, device_name, command, device, connected,
                   calls, result, stats, normvars>>

\* the worker of a cancelled request has returned: nobody awaits its future,
\* the result is dropped
result_dropped(r) ==
    /\ pc[r] = "returned"
    /\ response[r].kind = "cancelled"
    /\ Goto(r, "done")
    /\ UNCHANGED <<variant, tokenizer, op, policy, device_name, command, device, connected,
                   calls, result, response, stats, normvars>>

\* the endpoint resumes after its await only if it was not cancelled (on
\* these requests no worker raises)
endpoint_resumes(r) ==
    /\ response[r].kind = "none"
    /\ toon_with_stats(r)

\* the worker's steps, on its executor thread
WorkerSteps(r) ==
    \/ loader_load(r)
    \/ devices_get(r)
    \/ is_connected(r)
    \/ connect(r)
    \/ parse(r)
    \/ execute(r)
    \/ disconnect_device(r)
    \/ disconnect(r)

StepCancel(r) ==
    \/ SubmitCancellable(r)
    \/ run_show_command_async(r)
    \/ WorkerSteps(r)
    \/ Cancel(r)
    \/ endpoint_resumes(r)
    \/ result_dropped(r)

NextCancel == \E r \in Req : StepCancel(r)

SpecCancel == InitConc /\ [][NextCancel]_vars

(***************************************************************************)
(* Specification of the normaliser alone: make_json_safe applied to a      *)
(* value, then to its own output                                           *)
(***************************************************************************)
Leaves ==
    {PyNone, PyBool(TRUE), PyInt(1), PyInt(10), PyStr(Chars("1")), PyStr(Chars("a")),
     PyOpaque(Chars("b'x'"))}

\* what the sets hold (hashable values), and the sets: every iteration order
\* of up to three of them
SetElements == {PyInt(1), PyInt(2), PyInt(3), PyInt(10), PyStr(Chars("1"))}

Sets ==
    {PySet(e) : e \in {q \in UNION {[1..n -> SetElements] : n \in 0..3} :
                          \A i, j \in DOMAIN q : i # j => q[i] # q[j]}}

\* the containers built around a value
Wrap(v) ==
    {PyList(<<v>>), PyList(<<PyInt(2), v>>), PyTuple(<<v, PyNone>>),
     PyDict(<< <<PyStr(Chars("a")), v>> >>),
     PyDict(<< <<PyInt(1), v>>, <<PyStr(Chars("1")), PyNone>> >>),
     PyObject(PyDict(<< <<PyStr(Chars("x")), v>> >>))}

RECURSIVE Values(_)
Values(depth) ==
    IF depth = 0 THEN Leaves \cup Sets
    ELSE Values(depth - 1) \cup UNION {Wrap(v) : v \in Values(depth - 1)}

InitNorm ==
    /\ variant = "server"
    /\ tokenizer = "None"
    /\ IdleRequests
    /\ npc = "input"
    /\ nin \in Values(MaxDepth)
    /\ nout = PyNone
    /\ nout2 = PyNone

normalize ==
    /\ npc = "input"
    /\ nout' = make_json_safe(nin)
    /\ npc' = "normalized"
    /\ UNCHANGED <<reqvars, nin, nout2>>

renormalize ==
    /\ npc = "normalized"
    /\ nout2' = make_json_safe(nout)
    /\ npc' = "renormalized"
    /\ UNCHANGED <<reqvars, nin, nout>>

NextNorm == normalize \/ renormalize

SpecNorm == InitNorm /\ [][NextNorm]_vars

(***************************************************************************)
(* Specification of the normaliser on values that may hold themselves      *)
(***************************************************************************)
\* an element that is not a value of its own but the container `up` levels
\* above it (1: the container that holds it): a = []; a.append(a) is
\* PyList(<<PyRef(1)>>)
PyRef(up) == [t |-> "ref", up |-> up]

\* the interpreter's recursion limit, scaled to the values of the model: no
\* value without a PyRef needs as many nested calls
RecursionLimit == 2 * MaxDepth + 4

\* the RecursionError a call beyond the limit raises; nothing in
\* make_json_safe catches it
RecursionError == [t |-> "RecursionError"]

\* make_json_safe(obj) as the depth-th nested call, obj being held by the
\* containers env (innermost first)
RECURSIVE make_json_safe_at(_, _, _)
make_json_safe_at(x, e, depth) ==
  With(<<x, e>>, LAMBDA a :
    LET obj == a[1]
        env == a[2]
        inner == <<obj>> \o env
        \* make_json_safe(v) for an element v of obj
        call(v) == IF v.t = "ref"
                   THEN make_json_safe_at(inner[v.up], SubSeq(inner, v.up + 1, Len(inner)),
                                          depth + 1)
                   ELSE make_json_safe_at(v, inner, depth + 1)
        raised(vs) == \E i \in DOMAIN vs : vs[i].t = "RecursionError"
    IN IF depth > RecursionLimit THEN RecursionError
       ELSE CASE obj.t = "dict" ->
                   With([i \in DOMAIN obj.kv |-> call(obj.kv[i][2])], LAMBDA vs :
                       IF raised(vs) THEN RecursionError
                       ELSE PyDict(dict_of([i \in DOMAIN obj.kv |->
                                <<coerce_key(obj.kv[i][1]), vs[i]>>])))
              [] obj.t \in {"list", "tuple"} ->
                   With([i \in DOMAIN obj.e |-> call(obj.e[i])], LAMBDA vs :
                       IF raised(vs) THEN RecursionError ELSE PyList(vs))
              [] obj.t = "set" ->
                   With([i \in DOMAIN obj.e |-> call(obj.e[i])], LAMBDA vs :
                       IF raised(vs) THEN RecursionError ELSE PyList(sorted_by_str(vs)))
              [] obj.t = "object" -> call(obj.d)
              [] OTHER -> IF json_dumps_ok(obj) THEN obj ELSE PyStr(str(obj)))

\* values that hold themselves: a list in itself, a dict under its own key,
\* a child that points to its parent, an object that is its own attribute
CyclicValues ==
    {PyList(<<PyRef(1)>>),
     PyList(<<PyInt(1), PyRef(1)>>),
     PyDict(<< <<PyStr(Chars("self")), PyRef(1)>> >>),
     PyList(<<PyDict(<< <<PyStr(Chars("parent")), PyRef(2)>> >>)>>),
     PyDict(<< <<PyStr(Chars("a")), PyInt(1)>>,
               <<PyStr(Chars("b")), PyTuple(<<PyRef(2)>>)>> >>),
     PyObject(PyDict(<< <<PyStr(Chars("owner")), PyRef(2)>> >>))}

InitCyc ==
    /\ variant = "server"
    /\ tokenizer = "None"
    /\ IdleRequests
    /\ npc = "input"
    /\ nin \in Values(MaxDepth) \cup CyclicValues
    /\ nout = PyNone
    /\ nout2 = PyNone

\* safe = make_json_safe(data): it returns, or the RecursionError leaves it
normalize_object ==
    /\ npc = "input"
    /\ nout' = make_json_safe_at(nin, <<>>, 1)
    /\ npc' = IF nout'.t = "RecursionError" THEN "raised" ELSE "normalized"
    /\ UNCHANGED <<reqvars, nin, nout2>>

NextCyc == normalize_object

SpecCyc == InitCyc /\ [][NextCyc]_vars

(***************************************************************************)
(* Properties                                                              *)
(***************************************************************************)
GatedTools == {"pyats_run_show_command", "pyats_ping_from_network_device",
               "pyats_configure_device"}

Finished(r) == pc[r] \in {"returned", "done"}

\* env is an envelope with this status
HasStatus(env, status) ==
    env.t = "dict" /\ HasKey(env, "status") /\ Get(env, "status") = PyStr(Chars(status))

\* the runner of r returned an envelope with status "error"
ReturnedError(r) == result[r].kind = "return" /\ HasStatus(result[r].value, "error")

\* the request made a call with one of these names
Made(r, names) == \E i \in DOMAIN calls[r] : calls[r][i].call \in names

\* C1: for run-show-command, ping-from-device and configure-device, a request
\* the policy rejected has made no collaborator call at all (no directory
\* load, lookup, connect, parse, execute, configure or disconnect), is over
\* with an error-status envelope, and is answered with text; and any call a
\* request of these tools has made was made after its policy check passed.
C1_RejectionTouchesNoDevice ==
    \A r \in Req :
        op[r] \in GatedTools =>
            /\ policy[r] = "rejected" =>
                  /\ calls[r] = <<>>
                  /\ Finished(r)
                  /\ ReturnedError(r)
                  /\ pc[r] = "done" => response[r].kind = "text"
            /\ calls[r] # <<>> => policy[r] = "passed"

C1_Witness ==
    \E r \in Req :
        /\ op[r] = "pyats_ping_from_network_device"
        /\ policy[r] = "rejected"
        /\ pc[r] = "done"
        /\ response[r].kind = "text"

\* w (a text without whitespace) is one of the whitespace-separated tokens of c
IsToken(c, w) ==
    \E i \in 1..(Len(c) - Len(w) + 1) :
        /\ SubSeq(c, i, i + Len(w) - 1) = w
        /\ i = 1 \/ isspace(c[i - 1])
        /\ i + Len(w) - 1 = Len(c) \/ isspace(c[i + Len(w)])

DisallowedSet ==
    {Chars("|"), Chars("include"), Chars("exclude"), Chars("begin"), Chars("redirect"),
     Chars(">"), Chars("<"), Chars("config"), Chars("copy"), Chars("delete"),
     Chars("erase"), Chars("reload"), Chars("write")}

\* the rule of run-show-command as the specification words it
ShowRuleRejects(cmd) ==
    LET c == strip(lower(cmd))
    IN \/ Len(c) < 4
       \/ SubSeq(c, 1, 4) # <<"s", "h", "o", "w">>
       \/ \E w \in DisallowedSet : IsToken(c, w)

\* C2: run-show-command rejects a command exactly when its lower-cased,
\* trimmed text does not start with "show" or one of its whitespace-separated
\* tokens is in the disallowed set; "show running-config" (a disallowed word
\* inside a longer token) passes, and "show running-config | include
\* interface" is rejected before any collaborator call.
C2_ShowPolicyIsTokenBased ==
    \A r \in Req :
        (op[r] = "pyats_run_show_command" /\ policy[r] # "none") =>
            /\ policy[r] = "rejected" <=> ShowRuleRejects(command[r])
            /\ command[r] = Chars("show running-config") => policy[r] = "passed"
            /\ command[r] = Chars("show running-config | include interface") =>
                  policy[r] = "rejected" /\ calls[r] = <<>> /\ ReturnedError(r)

C2_Witness ==
    \E r \in Req :
        /\ op[r] = "pyats_run_show_command"
        /\ command[r] = Chars("show running-config | include interface")
        /\ policy[r] = "rejected"
        /\ calls[r] = <<>>
        /\ pc[r] = "done"

\* the block holds "erase" in some letter case
HoldsErase(block) ==
    \E i \in 1..(Len(block) - 4) :
        /\ block[i] \in {"e", "E"}
        /\ block[i + 1] \in {"r", "R"}
        /\ block[i + 2] \in {"a", "A"}
        /\ block[i + 3] \in {"s", "S"}
        /\ block[i + 4] \in {"e", "E"}

AcquireCalls == {"loader.load", "devices.get", "is_connected", "connect"}

\* a call of the acquisition failed, or the device was not in the testbed
AcquireFailed(r) ==
    \E i \in DOMAIN calls[r] :
        /\ calls[r][i].call \in AcquireCalls
        /\ ~calls[r][i].ok
        /\ \A j \in 1..(i - 1) : calls[r][j].call \in AcquireCalls

\* C3: configure-device rejects a block exactly when it holds "erase" in some
\* letter case ("no erase startup-config" included); a rejected block gives an
\* error-status envelope with no collaborator call (no session, no
\* configure); any other block passes the policy and reaches the device's
\* configure whenever the session is acquired.
C3_ErasePolicy ==
    \A r \in Req :
        (op[r] = "pyats_configure_device" /\ policy[r] # "none") =>
            /\ policy[r] = "rejected" <=> HoldsErase(command[r])
            /\ policy[r] = "rejected" =>
                  calls[r] = <<>> /\ Finished(r) /\ ReturnedError(r)
            /\ (policy[r] = "passed" /\ Finished(r)) =>
                  Made(r, {"configure"}) \/ AcquireFailed(r)

C3_Witness ==
    \E r \in Req :
        /\ op[r] = "pyats_configure_device"
        /\ command[r] = Chars("no erase startup-config")
        /\ policy[r] = "rejected"
        /\ calls[r] = <<>>
        /\ pc[r] = "done"

\* C4: when an operation is over, the session it opened (it called connect)
\* is no longer connected, whichever way its worker ended.
C4_SessionReleasedOnEveryExit ==
    \A r \in Req : (Finished(r) /\ Made(r, {"connect"})) => ~connected[r]

\* C5: no failure of a collaborator escapes: the runner of every request
\* returns an envelope (it never raises), and the tool endpoint answers with
\* text.
C5_NoFailureEscapes ==
    \A r \in Req :
        /\ Finished(r) => result[r].kind = "return"
        /\ pc[r] = "done" => response[r].kind = "text"

ParseFirstTools == {"pyats_run_show_command", "pyats_ping_from_network_device"}

\* the positions in the history of r of its calls named `call`
CallsOf(r, call) == {i \in DOMAIN calls[r] : calls[r][i].call = call}

\* the worker of r is past its device command
PastCommand(r) == pc[r] \in {"finally", "disconnect", "returned", "done"}

C7_StatusDecidesPayload ==
    \A r \in Req :
        result[r].kind = "return" =>
            LET env == result[r].value
            IN /\ env.t = "dict"
               /\ HasKey(env, "status")
               /\ \E st \in {"completed", "completed_raw", "success", "error"} :
                      HasStatus(env, st)
               /\ IF HasStatus(env, "error")
                  THEN HasKey(env, "error") /\ ~HasKey(env, "output")
                  ELSE HasKey(env, "output") /\ ~HasKey(env, "error")

C7_Witness ==
    \E r \in Req :
        /\ op[r] = "pyats_configure_device"
        /\ pc[r] = "done"
        /\ result[r].kind = "return"
        /\ HasStatus(result[r].value, "success")
        /\ HasKey(result[r].value, "output")

\* the response text holds a segment of this kind
HasSegment(r, kind) ==
    /\ response[r].kind = "text"
    /\ \E i \in DOMAIN response[r].body : response[r].body[i].seg = kind

\* the text is the explicit error block: it opens with the "error" fence and
\* holds the failure's reason and the JSON baseline
IsErrorBlock(body) ==
    /\ body[1].seg = "text"
    /\ startswith(body[1].s, fence \o Chars("error"))
    /\ \E i \in DOMAIN body : body[i] = Text(Failed("toon_encode"))
    /\ \E i \in DOMAIN body : body[i].seg = "json"

\* the text's payload is the compact encoding, with no JSON rendering
IsCompactPayload(body) ==
    /\ \E i \in DOMAIN body : body[i].seg = "toon"
    /\ \A i \in DOMAIN body : body[i].seg # "json"

\* C8: the text a tool returns is either the compact (TOON) encoding or the
\* explicit error block with the failure's reason and the JSON baseline; the
\* JSON rendering is never the payload.
C8_NoSilentJsonFallback ==
    \A r \in Req :
        (pc[r] = "done" /\ response[r].kind = "text") =>
            IsCompactPayload(response[r].body) \/ IsErrorBlock(response[r].body)

\* C9 as stated: whenever encoding succeeds the returned text holds the token
\* report beside the payload, and the savings are >= 0 when the compact count
\* is below the JSON count.
C9_ReportInResponse ==
    \A r \in Req :
        (pc[r] = "done" /\ HasSegment(r, "toon")) =>
            /\ HasSegment(r, "report")
            /\ stats[r].toon_tokens < stats[r].json_tokens => stats[r].reduction >= 0

\* C9 as amended: whenever encoding succeeds the returned text is the compact
\* payload between its fence lines and nothing else (no token report); the
\* report is written to the log, exactly when both counts are positive, and
\* the logged savings are >= 0 when the compact count is below the JSON count.
C9_ReportIsLoggedOnly ==
    \A r \in Req :
        (pc[r] = "done" /\ HasSegment(r, "toon")) =>
            LET body == response[r].body
            IN /\ Len(body) = 3
               /\ body[1] \in {Text(fence \o Chars("toon\n")),
                               Text(Chars("@@TOON@@\n") \o fence \o Chars("toon\n"))}
               /\ body[2].seg = "toon"
               /\ body[3] = Text(Chars("\n") \o fence)
               /\ stats[r].logged <=>
                      (stats[r].json_tokens > 0 /\ stats[r].toon_tokens > 0)
               /\ (stats[r].logged /\ stats[r].toon_tokens < stats[r].json_tokens) =>
                      stats[r].reduction >= 0

C9_Witness ==
    \E r \in Req :
        /\ pc[r] = "done"
        /\ HasSegment(r, "toon")
        /\ stats[r].logged
        /\ stats[r].toon_tokens < stats[r].json_tokens
        /\ stats[r].reduction > 0

\* v holds only str-keyed mappings (distinct keys), sequences and JSON scalars
RECURSIVE IsJsonSafe(_)
IsJsonSafe(v) ==
    CASE v.t \in {"NoneType", "bool", "int", "str"} -> TRUE
      [] v.t = "list" -> \A i \in DOMAIN v.e : IsJsonSafe(v.e[i])
      [] v.t = "dict" ->
            /\ \A i \in DOMAIN v.kv : v.kv[i][1].t = "str" /\ IsJsonSafe(v.kv[i][2])
            /\ \A i, j \in DOMAIN v.kv : i # j => v.kv[i][1] # v.kv[j][1]
      [] OTHER -> FALSE

\* C10: make_json_safe is idempotent on values built from dicts, lists,
\* tuples, sets, objects with a __dict__ and scalars: applied to its own
\* output it returns that output; and its output holds only str-keyed
\* mappings, sequences and JSON scalars.
C10_NormalizeIdempotent ==
    /\ npc \in {"normalized", "renormalized"} => IsJsonSafe(nout)
    /\ npc = "renormalized" => nout2 = nout

C10_Witness ==
    /\ npc = "renormalized"
    /\ nin = PyList(<<PyInt(2), PySet(<<PyInt(3), PyInt(1), PyInt(2)>>)>>)
    /\ nout = PyList(<<PyInt(2), PyList(<<PyInt(1), PyInt(2), PyInt(3)>>)>>)
    /\ nout2 = nout

\* the sequences q over the positions of ss with q[i] in ss[i]
SeqProduct(ss) ==
    {q \in [DOMAIN ss -> UNION Range(ss)] : \A i \in DOMAIN ss : q[i] \in ss[i]}

\* every order in which the elements e of a set may be enumerated
Enumerations(e) ==
    {q \in [DOMAIN e -> Range(e)] : \A i, j \in DOMAIN q : i # j => q[i] # q[j]}

\* the values that are v with the elements of its sets enumerated in another
\* order
RECURSIVE Reenumerated(_)
Reenumerated(v) ==
    CASE v.t = "set" -> {PySet(q) : q \in Enumerations(v.e)}
      [] v.t = "list" ->
            {PyList(q) : q \in SeqProduct([i \in DOMAIN v.e |-> Reenumerated(v.e[i])])}
      [] v.t = "tuple" ->
            {PyTuple(q) : q \in SeqProduct([i \in DOMAIN v.e |-> Reenumerated(v.e[i])])}
      [] v.t = "dict" ->
            {PyDict([i \in DOMAIN v.kv |-> <<v.kv[i][1], q[i]>>]) :
                q \in SeqProduct([i \in DOMAIN v.kv |-> Reenumerated(v.kv[i][2])])}
      [] v.t = "object" -> {PyObject(d) : d \in Reenumerated(v.d)}
      [] OTHER -> {v}

\* C11: the output of make_json_safe does not depend on the order in which
\* the sets of its input are enumerated: every other enumeration of the same
\* sets (sets holding 1 and "1" included) gives the same output, and the set
\* {3, 1, 2} gives [1, 2, 3].
C11_SetOrderDoesNotLeak ==
    npc \in {"normalized", "renormalized"} =>
        /\ \A w \in Reenumerated(nin) : make_json_safe(w) = nout
        /\ nin = PySet(<<PyInt(3), PyInt(1), PyInt(2)>>) =>
              nout = PyList(<<PyInt(1), PyInt(2), PyInt(3)>>)

\* the request is in flight: called and not yet answered
InFlight(r) == pc[r] \notin {"idle", "done"}

\* the calls of r that carry the command were made with r's own command
OwnArguments(r) ==
    \A i \in DOMAIN calls[r] :
        /\ calls[r][i].call \in {"parse", "execute"} => calls[r][i].arg = command[r]
        /\ calls[r][i].call = "devices.get" => calls[r][i].arg = device_name[r]

\* the answer of r is the text toon_with_stats makes of the envelope r's own
\* runner returned, and that envelope names r's own device or command
OwnResponse(r) ==
    /\ response[r].kind = "text"
    /\ result[r].kind = "return"
    /\ LET safe == make_json_safe(result[r].value)
       IN response[r].body \in {success_text(variant, safe),
                                failure_text(variant, safe, Failed("toon_encode"))}
    /\ IF policy[r] = "rejected"
       THEN Get(result[r].value, "error") = PyStr(modifier_message(variant, command[r]))
                \/ not_show(command[r])
       ELSE Get(result[r].value, "device") = PyStr(device_name[r])

\* a request is answered exactly when it is done, and its answer never changes
OneResponse ==
    /\ \A r \in Req : (pc[r] = "done") <=> (response[r].kind # "none")
    /\ \A r \in Req : pc[r] = "done" => OwnResponse(r)
    /\ \A r \in Req : OwnArguments(r)

\* no request in flight waits for another: its next step can be taken
\* whatever the other requests are doing
NeverBlocked == \A r \in Req : InFlight(r) => ENABLED Work(r)

Holding(r) ==
    pc[r] \in {"is_connected", "connect", "get_parser", "parse", "execute", "configure",
               "finally", "disconnect"}

\* the worker of r is using its session: acquired, command not yet finished
InSession(r) == pc[r] \in {"get_parser", "parse", "execute", "configure"}

\* C13: under every interleaving, requests for the same device included, no
\* two workers hold the device object of the same testbed (each holds the one
\* of the testbed it loaded itself); the session a worker is using is
\* connected (nobody else closed it); and the step that ends a request's
\* release changes no session but that request's own.
C13_NoSessionShared ==
    /\ [](\A q, r \in Req :
            (q # r /\ Holding(q) /\ Holding(r)) => testbed(q) # testbed(r))
    /\ [](\A r \in Req : InSession(r) => connected[testbed(r)])
    /\ [][\A q, r \in Req :
            (q # r /\ pc[q] \in {"finally", "disconnect"} /\ pc'[q] # pc[q]) =>
                connected'[testbed(r)] = connected[testbed(r)]]_vars

\* one request has released its session while another, for the same device,
\* is still using its own
C13_Witness ==
    \E q, r \in Req :
        /\ q # r
        /\ device_name[q] = device_name[r]
        /\ pc[q] = "returned" /\ Made(q, {"disconnect"}) /\ ~connected[testbed(q)]
        /\ pc[r] = "execute" /\ connected[testbed(r)]

\* C14: for every tool, the linux command included, an envelope with status
\* "completed" carries the value of a parse that returned, and the output of
\* a device.execute that returned is reported with status "completed_raw".
C14_CompletedMeansParsed ==
    \A r \in Req :
        (Finished(r) /\ result[r].kind = "return") =>
            /\ HasStatus(result[r].value, "completed") =>
                  \E i \in CallsOf(r, "parse") : calls[r][i].ok
            /\ (\E j \in CallsOf(r, "execute") : calls[r][j].ok) =>
                  HasStatus(result[r].value, "completed_raw")

\* C15: the release never raises: every step of _disconnect_device, whatever
\* is_connected and disconnect do, leaves the worker's result as it was, an
\* envelope the worker returns.
C15_ReleaseNeverRaises ==
    [][\A r \in Req :
          (pc[r] \in {"finally", "disconnect"} /\ pc'[r] # pc[r]) =>
              /\ result[r].kind = "return"
              /\ result'[r] = result[r]]_vars

\* the positions in the history of r where _disconnect_device was called
Releases(r) == CallsOf(r, "_disconnect_device")

\* the call c is an is_connected that returned this answer
Answered(c, answer) == c.call = "is_connected" /\ c.ok /\ c.arg = answer

\* the call c is the release of this device variable
ReleaseOf(c, dev) == c.call = "_disconnect_device" /\ c.arg = dev

\* C16: a request dispatched to a worker calls the release exactly once by
\* the time it is over (never twice before, never when rejected); a release
\* of no device (acquisition failed) makes no call at all, a release of a
\* device that reports not connected makes no disconnect; disconnect is
\* called at most once per request, inside the release, right after
\* is_connected answered True.
C16_ReleaseOnceAndIdempotent ==
    \A r \in Req :
        /\ Cardinality(Releases(r)) <= 1
        /\ (Finished(r) /\ policy[r] = "passed") => Cardinality(Releases(r)) = 1
        /\ policy[r] = "rejected" => Releases(r) = {}
        /\ \A i \in Releases(r) :
              /\ calls[r][i].arg = "None" => Len(calls[r]) = i
              /\ \A j \in (i + 1)..Len(calls[r]) :
                    calls[r][j].call \in {"is_connected", "disconnect"}
        /\ Cardinality(CallsOf(r, "disconnect")) <= 1
        /\ \A j \in CallsOf(r, "disconnect") :
              /\ j > 2
              /\ ReleaseOf(calls[r][j - 2], "dev")
              /\ Answered(calls[r][j - 1], TRUE)

\* a linux command whose connect failed: released once, the device reports
\* not connected, no disconnect
C16_Witness ==
    \E r \in Req :
        /\ pc[r] = "done"
        /\ \E i \in Releases(r) :
              /\ ReleaseOf(calls[r][i], "dev")
              /\ Len(calls[r]) = i + 1
              /\ Answered(calls[r][i + 1], FALSE)
        /\ CallsOf(r, "disconnect") = {}

\* r made a call `call` that failed
FailedCall(r, call) == \E i \in CallsOf(r, call) : ~calls[r][i].ok

\* the acquisition of r found the device connected
FoundConnected(r) ==
    \E i \in CallsOf(r, "is_connected") :
        /\ Answered(calls[r][i], TRUE)
        /\ \A j \in Releases(r) : i < j

\* connect is called at most once; not at all when the name is not in the
\* testbed, and then no command reaches a device and the worker returns an
\* error envelope; not at all when the device reports connected
ConnectAtMostOnce(r) ==
    /\ Cardinality(CallsOf(r, "connect")) <= 1
    /\ FailedCall(r, "devices.get") =>
          /\ ~Made(r, {"connect", "parse", "execute", "configure"})
          /\ Finished(r) => ReturnedError(r)
    /\ FoundConnected(r) => ~Made(r, {"connect"})
    /\ FailedCall(r, "connect") => ~Made(r, {"parse", "execute", "configure"})

\* a failed connect ends the worker with the error envelope of its message
ConnectFailureIsReported(r) ==
    (FailedCall(r, "connect") /\ Finished(r)) =>
        result[r] = Return(ErrorEnvelope(Failed("connect")))

\* C17: within a request connect is called at most once and never again
\* after it failed, zero times when the device name is not in the testbed
\* (error envelope, no parse, execute or configure) or the device reports
\* connected, and a failed connect ends the request with an error envelope
\* that carries the message of the failure.
C17_ConnectOnceFailureReported ==
    \A r \in Req : ConnectAtMostOnce(r) /\ ConnectFailureIsReported(r)

\* the same for the five tools that acquire through _get_device, for which
\* no device is bound after a failed connect
C17_ThroughGetDevice ==
    \A r \in Req : /\ ConnectAtMostOnce(r)
                   /\ ~IsLinux(r) => ConnectFailureIsReported(r)

\* tenths is 1000 * (1 - toon_tokens / json_tokens) rounded to the nearest
\* integer: the percentage 100 * (1 - toon/json) with one decimal
IsSavings(tenths, json_tokens, toon_tokens) ==
    /\ 2 * json_tokens * tenths <= 2000 * (json_tokens - toon_tokens) + json_tokens
    /\ 2000 * (json_tokens - toon_tokens) + json_tokens < 2 * json_tokens * (tenths + 1)

\* C18: the savings figure is computed, as 100 * (1 - compact / json), only
\* when both token counts are positive; when a count is -1 (no tokenizer,
\* or encode raised) or 0 no figure is computed, and whatever the counts
\* are the endpoint's answer is the compact payload unless json.dumps or
\* toon_encode itself failed.
C18_SavingsOnlyFromBothCounts ==
    \A r \in Req :
        /\ (pc[r] = "done" /\ HasSegment(r, "toon")) =>
              /\ stats[r].logged <=> (stats[r].json_tokens > 0 /\ stats[r].toon_tokens > 0)
              /\ stats[r].logged =>
                    IsSavings(stats[r].reduction, stats[r].json_tokens, stats[r].toon_tokens)
              /\ ~stats[r].logged => stats[r].reduction = 0
              /\ tokenizer = "None" =>
                    stats[r].json_tokens = -1 /\ stats[r].toon_tokens = -1
        /\ (pc[r] = "done" /\ result[r].kind = "return") =>
              LET safe == encoded_value(variant, result[r].value)
              IN response[r] \in
                    {Raised(Failed("json.dumps")),
                     Responded(failure_text(variant, safe, Failed("toon_encode"))),
                     Responded(success_text(variant, safe))}

\* one count positive, the other not: no figure, the payload is returned
C18_Witness ==
    \E r \in Req :
        /\ pc[r] = "done"
        /\ HasSegment(r, "toon")
        /\ stats[r].json_tokens > 0
        /\ stats[r].toon_tokens <= 0
        /\ ~stats[r].logged

\* no tokenizer at all: the payload is returned
C18_WitnessNoTokenizer ==
    \E r \in Req : pc[r] = "done" /\ HasSegment(r, "toon") /\ tokenizer = "None"

\* v holds no element that is one of its own containers
RECURSIVE IsAcyclic(_)
IsAcyclic(v) ==
    CASE v.t = "ref" -> FALSE
      [] v.t \in {"list", "tuple", "set"} -> \A i \in DOMAIN v.e : IsAcyclic(v.e[i])
      [] v.t = "dict" -> \A i \in DOMAIN v.kv : IsAcyclic(v.kv[i][2])
      [] v.t = "object" -> IsAcyclic(v.d)
      [] OTHER -> TRUE

\* on the values that do not hold themselves the call returns, within the
\* recursion limit, what make_json_safe gives, a JSON-safe value
NormalizeReturnsOnAcyclic ==
    (npc # "input" /\ IsAcyclic(nin)) =>
        /\ npc = "normalized"
        /\ nout = make_json_safe(nin)
        /\ IsJsonSafe(nout)

\* C19: make_json_safe is total: applied to any value, also to a dict, list
\* or object that holds itself, it returns, and what it returns is JSON-safe.
C19_NormalizeIsTotal ==
    npc # "input" => (npc = "normalized" /\ IsJsonSafe(nout))

\* the caller of r cancelled it
IsCancelled(r) == response[r].kind = "cancelled"

LearnTools == {"pyats_show_running_config", "pyats_show_logging"}

\* the fixed diagnostic command of a learn tool
DiagnosticCommand(tool) ==
    IF tool = "pyats_show_running_config" THEN Chars("show run brief")
    ELSE Chars("show logging last 250")

\* the worker of r returned an envelope that is not an error
ReturnedOutput(r) == result[r].kind = "return" /\ ~HasStatus(result[r].value, "error")

\* the text under output.raw_output of the envelope r returned
raw_output_of(r) == Get(Get(result[r].value, "output"), "raw_output").s

\* t holds no match of the ANSI escape pattern and only characters of
\* string.printable
IsClean(t) ==
    /\ \A i \in DOMAIN t : ansi_escape_match(drop(t, i - 1)) = 0
    /\ \A i \in DOMAIN t : ord(t[i]) \in (32..126) \cup (9..13)

\* C21: show-running-config and show-logging hand the device only their
\* fixed command ("show run brief", "show logging last 250"), by execute,
\* at most once, and never call parse, get_parser or configure; an answer
\* that is not an error has status "completed_raw" and the text under
\* output.raw_output; for show-running-config that text holds no ANSI
\* escape sequence and no character outside string.printable, for
\* show-logging it is a text of the device as the driver returned it.
C21_LearnToolsRunFixedCommandRaw ==
    \A r \in Req :
        op[r] \in LearnTools =>
            /\ ~Made(r, {"parse", "get_parser", "configure"})
            /\ Cardinality(CallsOf(r, "execute")) <= 1
            /\ \A i \in CallsOf(r, "execute") : calls[r][i].arg = DiagnosticCommand(op[r])
            /\ ReturnedOutput(r) =>
                  /\ HasStatus(result[r].value, "completed_raw")
                  /\ \E i \in CallsOf(r, "execute") : calls[r][i].ok
                  /\ Get(result[r].value, "output").t = "dict"
                  /\ HasKey(Get(result[r].value, "output"), "raw_output")
                  /\ IF op[r] = "pyats_show_running_config"
                     THEN IsClean(raw_output_of(r))
                     ELSE raw_output_of(r) \in RawOutputsOf(device_name[r])

\* show-running-config on a device that answered with escapes, a bell and a
\* non-ASCII letter around "r1"
C21_Witness ==
    \E r \in Req :
        /\ op[r] = "pyats_show_running_config"
        /\ pc[r] = "done"
        /\ ReturnedOutput(r)
        /\ raw_output_of(r) = Chars("r1")

\* show-logging keeps the escapes of the same answer
C21_WitnessLogging ==
    \E r \in Req :
        /\ op[r] = "pyats_show_logging"
        /\ pc[r] = "done"
        /\ ReturnedOutput(r)
        /\ ~IsClean(raw_output_of(r))

DeviceCommands == {"parse", "execute", "configure"}

\* the call c is a step of the acquisition that failed
FailedAcquisition(c) ==
    c.call \in {"loader.load", "devices.get", "is_connected", "connect"} /\ ~c.ok

\* the call c gave the worker a connected session: connect returned, or
\* is_connected answered True
Acquired(c) == (c.call = "connect" /\ c.ok) \/ Answered(c, TRUE)

\* the call c belongs to the release
ReleaseCall(c) == c.call \in {"_disconnect_device", "disconnect"}

\* C22: every parse, execute and configure of a request comes after a call
\* that gave it a connected session (connect returned, or is_connected
\* answered True), after no failed call of the acquisition, and before the
\* release (_disconnect_device, disconnect) of the request.
C22_CommandsOnlyInsideSession ==
    \A r \in Req :
        \A i \in DOMAIN calls[r] :
            calls[r][i].call \in DeviceCommands =>
                /\ \E j \in 1..(i - 1) : Acquired(calls[r][j])
                /\ \A j \in 1..(i - 1) :
                      ~FailedAcquisition(calls[r][j]) /\ ~ReleaseCall(calls[r][j])

\* connect returned, parse failed, execute ran, then the session was
\* released and disconnected, and nothing came after
C22_Witness ==
    \E r \in Req :
        /\ pc[r] = "done"
        /\ \E i \in CallsOf(r, "connect") : calls[r][i].ok
        /\ Made(r, {"parse"}) /\ Made(r, {"execute"})
        /\ calls[r][Len(calls[r])].call = "disconnect"

\* the other file of the repository
OtherVariant(v) == IF v = "server" THEN "pyats_mcp_server" ELSE "server"

\* the runner of r has decided
Decided(r) == policy[r] # "none"

\* the decision of the serving file is the decision the other file makes on
\* the same command
DecidedAlike(r) ==
    (policy[r] = "rejected") <=> rejects(OtherVariant(variant), op[r], command[r])

\* C23: server.py and pyats_mcp_server.py decide alike: a run-show-command,
\* ping-from-device or configure-device request is rejected by the file that
\* serves it exactly when the other file rejects the same command text; and
\* ping-from-device is accepted exactly when the lower-cased text starts
\* with "ping".
C23_VariantsDecideAlike ==
    \A r \in Req :
        (Decided(r) /\ op[r] \in GatedTools) =>
            /\ DecidedAlike(r)
            /\ op[r] = "pyats_ping_from_network_device" =>
                  (policy[r] = "passed" <=> startswith(lower(command[r]), Chars("ping")))

\* the two files decide alike on show commands and configuration blocks
VariantsDecideAlikeButPing ==
    \A r \in Req :
        (Decided(r) /\ op[r] \in GatedTools \ {"pyats_ping_from_network_device"}) =>
            DecidedAlike(r)

\* the two files decide alike on ping commands without surrounding
\* whitespace
VariantsDecideAlikeOnStrippedPing ==
    \A r \in Req :
        (Decided(r) /\ op[r] = "pyats_ping_from_network_device"
            /\ strip(command[r]) = command[r]) => DecidedAlike(r)

====
